---- MODULE Spec2Model ----
(***************************************************************************)
(* Model of the css-talk editor extension (src/src/extension.ts).          *)
(*                                                                         *)
(* Text is modelled as a sequence of one-character strings.  The           *)
(* dictionary file is modelled by what JSON.parse makes of its text: it is *)
(* absent, unparseable, or holds a JSON value.                             *)
(***************************************************************************)
EXTENDS Integers, Sequences, FiniteSets, TLC

VARIABLES
  activated,      \* activate() has run and the commands are registered
  dirExists,      \* the global storage directory exists
  createPending,  \* the createDirectory request of activate() is in flight
  file,           \* user-dictionary.json
  registerMode,   \* the module-level flag
  modeShown,      \* the latest message of toggleRegisterMode
  hasEditor,      \* vscode.window.activeTextEditor is defined
  lastCall,       \* what the latest registerLine invocation did
  calls,          \* the lines registerLine was invoked on, in order
  file0,          \* the dictionary file before the first invocation
  doc,            \* the document: a sequence of lines [id, text]
  cursor,         \* editor.selection.active.line (1-based)
  tx,             \* the transformToCSS invocations in flight
  lastDone,       \* what the latest finished transformToCSS invocation did
  userEdits       \* number of edits and cursor moves the user made

recorderVars == <<activated, dirExists, createPending, file, registerMode,
                  modeShown, lastCall, calls, file0>>
transformVars == <<doc, cursor, tx, lastDone, userEdits>>
vars == <<recorderVars, hasEditor, transformVars>>

\* Number of registerLine invocations explored.
MaxCalls == 2
\* Number of transformToCSS invocations explored.
MaxTransforms == 2
\* Number of edits and cursor moves the user makes.
MaxUserEdits == 2

----------------------------------------------------------------------------
(* Characters and the character classes of the two regular expressions.    *)

WordChars == {"a", "b", "c"}
IdentChars == WordChars \cup {"-"}
Space == {" "}
Alphabet == IdentChars \cup Space \cup {":", ";", "."}
NonSemicolon == Alphabet \ {";"}

\* Index of the last character of the longest run of characters of C that
\* starts at i; i-1 when the run is empty (a greedy X* or X+).
RECURSIVE RunEnd(_, _, _)
RunEnd(s, i, C) ==
  IF i <= Len(s) /\ s[i] \in C THEN RunEnd(s, i + 1, C) ELSE i - 1

\* /--[\w-]+\s*:\s*[^;]+/ tried at position i: the index of the last
\* character of the match, 0 when there is no match at i.
VarMatchEnd(s, i) ==
  IF ~(i + 1 <= Len(s) /\ s[i] = "-" /\ s[i + 1] = "-") THEN 0
  ELSE LET n == RunEnd(s, i + 2, IdentChars)
           w == RunEnd(s, n + 1, Space)
           e == RunEnd(s, w + 2, NonSemicolon)
       IN IF n >= i + 2 /\ w + 1 <= Len(s) /\ s[w + 1] = ":" /\ e >= w + 2
          THEN e ELSE 0

\* /\.[\w-]+/ tried at position i.
ClassMatchEnd(s, i) ==
  IF ~(i <= Len(s) /\ s[i] = ".") THEN 0
  ELSE LET e == RunEnd(s, i + 1, IdentChars)
       IN IF e >= i + 1 THEN e ELSE 0

\* String.prototype.match with the g flag: the leftmost non-overlapping
\* matches, in order (null is modelled by the empty sequence).
RECURSIVE ScanVars(_, _)
ScanVars(s, i) ==
  IF i > Len(s) THEN <<>>
  ELSE LET e == VarMatchEnd(s, i)
       IN IF e > 0 THEN <<SubSeq(s, i, e)>> \o ScanVars(s, e + 1)
          ELSE ScanVars(s, i + 1)

matchVars(currentLine) == ScanVars(currentLine, 1)

RECURSIVE ScanClasses(_, _)
ScanClasses(s, i) ==
  IF i > Len(s) THEN <<>>
  ELSE LET e == ClassMatchEnd(s, i)
       IN IF e > 0 THEN <<SubSeq(s, i, e)>> \o ScanClasses(s, e + 1)
          ELSE ScanClasses(s, i + 1)

matchClasses(currentLine) == ScanClasses(currentLine, 1)

\* String.prototype.split(':'): the pieces between the colons.
RECURSIVE SplitFrom(_, _, _)
SplitFrom(s, i, piece) ==
  IF i > Len(s) THEN <<piece>>
  ELSE IF s[i] = ":" THEN <<piece>> \o SplitFrom(s, i + 1, <<>>)
  ELSE SplitFrom(s, i + 1, Append(piece, s[i]))

Split(s) == SplitFrom(s, 1, <<>>)

\* String.prototype.trim.
RECURSIVE TrimLeft(_)
TrimLeft(s) ==
  IF s # <<>> /\ Head(s) \in Space THEN TrimLeft(Tail(s)) ELSE s

RECURSIVE TrimRight(_)
TrimRight(s) ==
  IF s # <<>> /\ s[Len(s)] \in Space
  THEN TrimRight(SubSeq(s, 1, Len(s) - 1)) ELSE s

Trim(s) == TrimRight(TrimLeft(s))

\* const [key, value] = v.split(':').map(s => s.trim())
\* (value is undefined when there is no second piece: modelled as empty,
\* which is falsy as well).
KeyOf(v) == Trim(Split(v)[1])
ValueOf(v) == IF Len(Split(v)) >= 2 THEN Trim(Split(v)[2]) ELSE <<>>

\* if (key && value)
Storable(v) == KeyOf(v) # <<>> /\ ValueOf(v) # <<>>

Includes(seq, x) == \E i \in 1..Len(seq) : seq[i] = x

----------------------------------------------------------------------------
(* The dictionary file and the values JSON.parse can make of it.           *)

NoVariables == [k \in {} |-> <<>>]

JObject(hv, v, hc, c) ==
  [t |-> "object", hasVars |-> hv, variables |-> v,
   hasClasses |-> hc, classes |-> c]
JNull == [t |-> "null", hasVars |-> FALSE, variables |-> NoVariables,
          hasClasses |-> FALSE, classes |-> <<>>]
JArray == [t |-> "array", hasVars |-> FALSE, variables |-> NoVariables,
           hasClasses |-> FALSE, classes |-> <<>>]

\* let data = { variables: {}, classes: [] }
EmptyData == JObject(TRUE, NoVariables, TRUE, <<>>)

Absent == [kind |-> "absent", value |-> JNull]
Garbage == [kind |-> "garbage", value |-> JNull]
Json(v) == [kind |-> "json", value |-> v]

\* A dictionary file in the documented two-field shape.
IsRecord(f) ==
  f.kind = "json" /\ f.value.t = "object"
  /\ f.value.hasVars /\ f.value.hasClasses

\* A recorder that never reads the file back.
ReadData_NoRead(f) == EmptyData

\* The try block: existsSync, readFileSync, JSON.parse; a parse error is
\* caught and logged and data keeps its initial value.
ReadData(f) == IF f.kind = "json" THEN f.value ELSE EmptyData

\* The loop over matchVars: data.variables[key] = value and one
\* notification for every storable match.
RECURSIVE StoreVars(_, _, _)
StoreVars(ms, variables, notes) ==
  IF ms = <<>> THEN [variables |-> variables, notes |-> notes]
  ELSE LET v == Head(ms)
           key == KeyOf(v)
           value == ValueOf(v)
       IN IF Storable(v)
          THEN StoreVars(Tail(ms),
                 [k \in DOMAIN variables \cup {key} |->
                    IF k = key THEN value ELSE variables[k]],
                 Append(notes, [kind |-> "var", name |-> key]))
          ELSE StoreVars(Tail(ms), variables, notes)

\* The loop over matchClasses: push and notify unless already included.
RECURSIVE StoreClasses(_, _, _)
StoreClasses(ms, classes, notes) ==
  IF ms = <<>> THEN [classes |-> classes, notes |-> notes]
  ELSE LET className == Head(ms)
       IN IF ~Includes(classes, className)
          THEN StoreClasses(Tail(ms), Append(classes, className),
                 Append(notes, [kind |-> "class", name |-> className]))
          ELSE StoreClasses(Tail(ms), classes, notes)

\* data.variables[key] = value throws a TypeError when data is null or has
\* no variables property; data.classes.includes throws when data is null or
\* has no classes property.
VarsThrow(data, line) ==
  ~data.hasVars /\ \E i \in 1..Len(matchVars(line)) : Storable(matchVars(line)[i])
ClassesThrow(data, line) ==
  ~data.hasClasses /\ matchClasses(line) # <<>>

\* The body of the registerLine handler after the editor check, as a
\* function of the line, the file and the existence of the directory:
\* the record read, the record written (if any), the notifications shown
\* and how the handler ended.
RunRegisterLine(line, f, dir) ==
  LET data == ReadData(f)
      sv == IF data.hasVars THEN StoreVars(matchVars(line), data.variables, <<>>)
            ELSE [variables |-> data.variables, notes |-> <<>>]
      sc == IF data.hasClasses THEN StoreClasses(matchClasses(line), data.classes, sv.notes)
            ELSE [classes |-> data.classes, notes |-> sv.notes]
      merged == [data EXCEPT !.variables = sv.variables, !.classes = sc.classes]
  IN IF VarsThrow(data, line)
     THEN [line |-> line, before |-> f, read |-> data, written |-> data, notes |-> <<>>,
           outcome |-> "fault", wrote |-> FALSE]
     ELSE IF ClassesThrow(data, line)
     THEN [line |-> line, before |-> f, read |-> data, written |-> data, notes |-> sv.notes,
           outcome |-> "fault", wrote |-> FALSE]
     ELSE IF ~dir
     THEN [line |-> line, before |-> f, read |-> data, written |-> merged, notes |-> sc.notes,
           outcome |-> "fault", wrote |-> FALSE]
     ELSE [line |-> line, before |-> f, read |-> data, written |-> merged, notes |-> sc.notes,
           outcome |-> "done", wrote |-> TRUE]

NoCall == [line |-> <<>>, before |-> Absent, read |-> EmptyData, written |-> EmptyData,
           notes |-> <<>>, outcome |-> "none", wrote |-> FALSE]

----------------------------------------------------------------------------
(* Inputs.                                                                 *)

Lines ==
  { <<>>,
    <<"a", " ", "b">>,
    <<"-", "-", "a", " ", "b">>,
    <<"-", "-", "a", ":", "b">>,
    <<"-", "-", "a", " ", ":", " ", "c", ";">>,
    <<"-", "-", "a", ":", "b", ";", "-", "-", "a", ":", "c">>,
    <<"-", "-", "a", ":", "b", ":", "c">>,
    <<"-", "-", "a", ":", " ", ";">>,
    <<"-", "-", "b", ":", ".", "a">>,
    <<".", "a">>,
    <<".", "a", ".", "b", ".", "a">>,
    <<".", "b", " ", ".", "a", "-", "c">> }

NameA == <<"-", "-", "a">>
ClassA == <<".", "a">>

InitialFiles ==
  { Absent, Garbage, Json(JNull), Json(JArray),
    Json(JObject(FALSE, NoVariables, FALSE, <<>>)),
    Json(JObject(TRUE, NoVariables, FALSE, <<>>)),
    Json(EmptyData),
    Json(JObject(TRUE, [k \in {NameA} |-> <<"c">>], TRUE, <<ClassA>>)),
    Json(JObject(TRUE, NoVariables, TRUE, <<ClassA, ClassA>>)) }

----------------------------------------------------------------------------
(* The transform dispatcher: configuration, responses, document edits.     *)

ApiKeys == {"unset", "empty", "set"}

\* A credential check that only catches the unset setting.
MissingKey_UnsetOnly(k) == k = "unset"

\* if (!apiKey): undefined and the empty string are both falsy.
MissingKey(k) == k \in {"unset", "empty"}

Candidate(hm, hc, c) == [hasMessage |-> hm, hasContent |-> hc, content |-> c]
Body(n, h, cs) == [isNull |-> n, hasChoices |-> h, choices |-> cs]
NullBody == Body(TRUE, FALSE, <<>>)

\* What response.json() can produce: the body does not decode as JSON,
\* or it decodes to some JSON value.
NotJson == [decodes |-> FALSE, data |-> NullBody]
Decoded(d) == [decodes |-> TRUE, data |-> d]

Contents == { <<>>, <<" ">>, <<" ", "c", " ">> }

Bodies ==
  { NullBody,
    Body(FALSE, FALSE, <<>>),
    Body(FALSE, TRUE, <<>>),
    Body(FALSE, TRUE, <<Candidate(FALSE, FALSE, <<>>)>>),
    Body(FALSE, TRUE, <<Candidate(TRUE, FALSE, <<>>)>>) }
  \cup { Body(FALSE, TRUE, <<Candidate(TRUE, TRUE, c)>>) : c \in Contents }

\* !data || !data.choices || !data.choices[0]?.message?.content, negated.
\* An empty array is truthy, an empty string is falsy.
ShapeOK(data) ==
  /\ ~data.isNull
  /\ data.hasChoices
  /\ Len(data.choices) >= 1
  /\ data.choices[1].hasMessage
  /\ data.choices[1].hasContent
  /\ data.choices[1].content # <<>>

Payloads == {NotJson} \cup { Decoded(d) : d \in Bodies }

Min(a, b) == IF a < b THEN a ELSE b

\* editBuilder.replace(range, text) where range is line.range of the
\* TextLine captured before the request: characters 0..len of line lineNo
\* of the document as it is when the edit is applied (the end of the range
\* is clamped to the end of that line).
ReplaceRange(d, lineNo, len, text) ==
  [d EXCEPT ![lineNo].text =
     text \o SubSeq(d[lineNo].text, Min(len, Len(d[lineNo].text)) + 1,
                    Len(d[lineNo].text))]

DocTexts == { <<"x">>, <<"x", "y">> }

Doc0 == << [id |-> 1, text |-> <<"x">>], [id |-> 2, text |-> <<"x", "y">>] >>

\* An invocation in flight holds the TextLine captured before the request.
IdleTx == [pc |-> "idle", key |-> "unset", lineNo |-> 0, lineId |-> 0,
           sent |-> <<>>]
DoneTx == [IdleTx EXCEPT !.pc = "done"]

\* What a finished invocation did: the inputs it met (hadEditor, key,
\* rejected, payload) and its effects (requests, errors, edits, the document
\* before and after its edit).
NoneDone ==
  [outcome |-> "none", hadEditor |-> FALSE, key |-> "unset", lineId |-> 0,
   sent |-> <<>>, rejected |-> FALSE, payload |-> NotJson, requests |-> 0,
   errors |-> 0, edits |-> 0, docBefore |-> <<>>, docAfter |-> <<>>]

----------------------------------------------------------------------------
(* State machine.                                                          *)

InitCommon ==
  /\ activated = FALSE
  /\ createPending = FALSE
  /\ registerMode = FALSE
  /\ modeShown = "none"
  /\ hasEditor \in BOOLEAN
  /\ lastCall = NoCall
  /\ calls = <<>>
  /\ file0 = file
  /\ doc = Doc0
  /\ cursor = 1
  /\ tx = [i \in 1..MaxTransforms |-> IdleTx]
  /\ lastDone = NoneDone
  /\ userEdits = 0

InitRecorder ==
  /\ file \in InitialFiles
  /\ dirExists \in (IF file.kind = "absent" THEN BOOLEAN ELSE {TRUE})
  /\ InitCommon

InitTransform ==
  /\ file = Absent
  /\ dirExists = FALSE
  /\ InitCommon

\* activate(): starts createDirectory without awaiting it and registers
\* the commands.
Activate ==
  /\ ~activated
  /\ activated' = TRUE
  /\ createPending' = TRUE
  /\ UNCHANGED <<dirExists, file, registerMode, modeShown, hasEditor, lastCall,
                 calls, file0, transformVars>>

\* The createDirectory request started by activate() completes.
DirectoryCreated ==
  /\ createPending
  /\ createPending' = FALSE
  /\ dirExists' = TRUE
  /\ UNCHANGED <<activated, file, registerMode, modeShown, hasEditor, lastCall,
                 calls, file0, transformVars>>

\* The user opens or closes the active text editor.
SwitchEditor ==
  /\ hasEditor' = ~hasEditor
  /\ UNCHANGED <<recorderVars, transformVars>>

\* css-talk.toggleRegisterMode
ToggleRegisterMode ==
  /\ activated
  /\ registerMode' = ~registerMode
  /\ modeShown' = IF registerMode' THEN "ON" ELSE "OFF"
  /\ UNCHANGED <<activated, dirExists, createPending, file, hasEditor,
                 lastCall, calls, file0, transformVars>>

\* css-talk.registerLine; the handler has no await, so it runs from the
\* read of the file to the write as one step of the event loop.
RegisterLine ==
  /\ activated
  /\ Len(calls) < MaxCalls
  /\ IF ~hasEditor
     THEN /\ lastCall' = [NoCall EXCEPT !.outcome = "noeditor"]
          /\ UNCHANGED <<file, calls>>
     ELSE \E currentLine \in Lines :
            LET r == RunRegisterLine(currentLine, file, dirExists)
            IN /\ lastCall' = r
               /\ file' = IF r.wrote THEN Json(r.written) ELSE file
               /\ calls' = Append(calls, currentLine)
  /\ UNCHANGED <<activated, dirExists, createPending, registerMode, modeShown,
                 hasEditor, file0, transformVars>>

\* The user moves the cursor to another line.
MoveCursor ==
  /\ userEdits < MaxUserEdits
  /\ \E k \in (1..Len(doc)) \ {cursor} : cursor' = k
  /\ userEdits' = userEdits + 1
  /\ UNCHANGED <<recorderVars, hasEditor, doc, tx, lastDone>>

\* The user retypes a line of the document.
EditLine ==
  /\ userEdits < MaxUserEdits
  /\ \E k \in 1..Len(doc) : \E t \in DocTexts \ {doc[k].text} :
       doc' = [doc EXCEPT ![k].text = t]
  /\ userEdits' = userEdits + 1
  /\ UNCHANGED <<recorderVars, hasEditor, cursor, tx, lastDone>>

\* The user inserts a line at the top of the document; the cursor stays
\* on the text it was on.
InsertLineAbove ==
  /\ userEdits < MaxUserEdits
  /\ doc' = <<[id |-> Len(doc) + 1, text |-> <<"x">>]>> \o doc
  /\ cursor' = cursor + 1
  /\ userEdits' = userEdits + 1
  /\ UNCHANGED <<recorderVars, hasEditor, tx, lastDone>>

\* css-talk.transformToCSS up to its first await: the editor check, the
\* capture of the line, the credential check (apiKey is the value of the
\* css-talk.apiKey setting at that moment) and the call of fetch.
TransformToCSS(i) ==
  /\ activated
  /\ tx[i].pc = "idle"
  /\ \A j \in 1..(i - 1) : tx[j].pc # "idle"
  /\ \E apiKey \in ApiKeys :
       IF ~hasEditor
       THEN /\ tx' = [tx EXCEPT ![i] = DoneTx]
            /\ lastDone' = [NoneDone EXCEPT !.outcome = "noeditor", !.key = apiKey]
       ELSE IF MissingKey(apiKey)
       THEN /\ tx' = [tx EXCEPT ![i] = DoneTx]
            /\ lastDone' = [NoneDone EXCEPT !.outcome = "nokey", !.key = apiKey,
                              !.hadEditor = TRUE,
                              !.lineId = doc[cursor].id, !.sent = doc[cursor].text,
                              !.errors = 1]
       ELSE /\ tx' = [tx EXCEPT ![i] =
                        [pc |-> "fetch", key |-> apiKey, lineNo |-> cursor,
                         lineId |-> doc[cursor].id, sent |-> doc[cursor].text]]
            /\ lastDone' = lastDone
  /\ UNCHANGED <<recorderVars, hasEditor, doc, cursor, userEdits>>

\* What an invocation that issued its request has done when it ends.
Ended(t, outcome, payload) ==
  [NoneDone EXCEPT !.outcome = outcome, !.hadEditor = TRUE, !.key = t.key,
                   !.lineId = t.lineId, !.sent = t.sent, !.payload = payload,
                   !.requests = 1]

\* await fetch(...) settles: a rejection is not caught and ends the handler
\* with an unhandled fault.
FetchSettles(i) ==
  /\ tx[i].pc = "fetch"
  /\ \E rejects \in BOOLEAN :
       IF rejects
       THEN /\ tx' = [tx EXCEPT ![i] = DoneTx]
            /\ lastDone' = [Ended(tx[i], "fault", NotJson) EXCEPT
                              !.rejected = TRUE]
       ELSE /\ tx' = [tx EXCEPT ![i].pc = "json"]
            /\ lastDone' = lastDone
  /\ UNCHANGED <<recorderVars, hasEditor, doc, cursor, userEdits>>

\* await response.json() settles: a decoding failure is not caught; then
\* the shape check and the edit of the captured range.
JsonSettles(i) ==
  /\ tx[i].pc = "json"
  /\ tx' = [tx EXCEPT ![i] = DoneTx]
  /\ \E p \in Payloads :
       IF ~p.decodes
       THEN /\ lastDone' = Ended(tx[i], "fault", p)
            /\ doc' = doc
       ELSE IF ~ShapeOK(p.data)
       THEN /\ lastDone' = [Ended(tx[i], "serviceerror", p) EXCEPT !.errors = 1]
            /\ doc' = doc
       ELSE LET d == ReplaceRange(doc, tx[i].lineNo, Len(tx[i].sent),
                                  Trim(p.data.choices[1].content))
            IN /\ doc' = d
               /\ lastDone' = [Ended(tx[i], "replaced", p) EXCEPT
                                 !.edits = 1, !.docBefore = doc, !.docAfter = d]
  /\ UNCHANGED <<recorderVars, hasEditor, cursor, userEdits>>

NextRecorder ==
  \/ Activate
  \/ DirectoryCreated
  \/ SwitchEditor
  \/ ToggleRegisterMode
  \/ RegisterLine

NextTransform ==
  \/ Activate
  \/ SwitchEditor
  \/ MoveCursor
  \/ EditLine
  \/ InsertLineAbove
  \/ \E i \in 1..MaxTransforms : TransformToCSS(i)
  \/ \E i \in 1..MaxTransforms : FetchSettles(i)
  \/ \E i \in 1..MaxTransforms : JsonSettles(i)

SpecRecorder == InitRecorder /\ [][NextRecorder]_vars

SpecTransform == InitTransform /\ [][NextTransform]_vars

----------------------------------------------------------------------------
(* What the specification says of a line, stated apart from the handler.   *)

\* The names and class tokens a line declares.
DeclaredNames(line) ==
  { KeyOf(matchVars(line)[i]) : i \in 1..Len(matchVars(line)) }
StoredNames(line) ==
  { KeyOf(matchVars(line)[i]) :
      i \in { j \in 1..Len(matchVars(line)) : Storable(matchVars(line)[j]) } }
ClassTokens(line) ==
  { matchClasses(line)[i] : i \in 1..Len(matchClasses(line)) }

\* The whole text of a declaration after its first colon, trimmed.
TextAfterColon(v) ==
  Trim(SubSeq(v, RunEnd(v, 1, Alphabet \ {":"}) + 2, Len(v)))

\* The declarations of a line whose text after the colon is not blank.
Declarations(line) ==
  { i \in 1..Len(matchVars(line)) : TextAfterColon(matchVars(line)[i]) # <<>> }

\* Declaration i is the last one of its name in the line.
IsLast(line, i) ==
  \A j \in Declarations(line) :
    KeyOf(matchVars(line)[j]) = KeyOf(matchVars(line)[i]) => j <= i

\* A sequence without its repeated elements, first occurrences kept.
RECURSIVE Distinct(_)
Distinct(seq) ==
  IF seq = <<>> THEN <<>>
  ELSE LET front == Distinct(SubSeq(seq, 1, Len(seq) - 1))
       IN IF Includes(front, seq[Len(seq)]) THEN front
          ELSE Append(front, seq[Len(seq)])

NoDuplicates(seq) == \A i, j \in 1..Len(seq) : seq[i] = seq[j] => i = j

RECURSIVE TokensOf(_)
TokensOf(lines) ==
  IF lines = <<>> THEN <<>> ELSE matchClasses(Head(lines)) \o TokensOf(Tail(lines))

VariablesOf(f) == IF f.kind = "json" THEN f.value.variables ELSE NoVariables
ClassesOf(f) == IF f.kind = "json" THEN f.value.classes ELSE <<>>

Count(notes, kind, name) ==
  Cardinality({ i \in 1..Len(notes) : notes[i] = [kind |-> kind, name |-> name] })

\* registerLine got past its editor check.
Invoked == lastCall.outcome \in {"done", "fault"}

\* The file exists and holds exactly the names and classes of the line.
HoldsExactly(f, line) ==
  /\ f.kind = "json"
  /\ DOMAIN VariablesOf(f) = StoredNames(line)
  /\ ClassesOf(f) = Distinct(matchClasses(line))

----------------------------------------------------------------------------
(* The dictionary recorder.                                                *)

\* C1: after a registerLine invocation every variable declaration of the
\* line has its name as a key of `variables`, with the whole trimmed text
\* between the colon and the semicolon of its last declaration as value,
\* also when that text contains a colon.  (Stated for the invocations that
\* ran to completion and the declarations whose text is not blank.)
C1_DeclaredValuesStored ==
  lastCall.outcome = "done" =>
    \A i \in Declarations(lastCall.line) :
      LET v == matchVars(lastCall.line)[i]
      IN /\ KeyOf(v) \in DOMAIN VariablesOf(file)
         /\ IsLast(lastCall.line, i) =>
              VariablesOf(file)[KeyOf(v)] = TextAfterColon(v)

\* C2: starting from an absent file or a record whose classes has no
\* duplicates, after any sequence of registerLine invocations `classes` has
\* no duplicates and is the prior classes followed by the class tokens of
\* the lines, in first-occurrence order.
C2_ClassesAccumulate ==
  (file0.kind = "absent" \/ (IsRecord(file0) /\ NoDuplicates(ClassesOf(file0)))) =>
    /\ NoDuplicates(ClassesOf(file))
    /\ ClassesOf(file) = Distinct(ClassesOf(file0) \o TokensOf(calls))

\* C3: an invocation shows exactly one notification for each variable name
\* that becomes a key and for each class that is added, and none for a
\* variable that was a key already nor for a class that was present.
C3_OneNotificationPerNewEntry ==
  lastCall.outcome = "done" =>
    /\ \A name \in DeclaredNames(lastCall.line) :
         Count(lastCall.notes, "var", name) =
           IF name \in DOMAIN lastCall.written.variables
              /\ name \notin DOMAIN lastCall.read.variables
           THEN 1 ELSE 0
    /\ \A c \in ClassTokens(lastCall.line) :
         Count(lastCall.notes, "class", c) =
           IF Includes(lastCall.read.classes, c) THEN 0 ELSE 1

\* C4: when the file exists but does not hold a valid two-field record, an
\* invocation still runs to completion and leaves a file holding exactly
\* the variables and classes of its line.
C4_CorruptFileRecovered ==
  (Invoked /\ lastCall.before.kind # "absent" /\ ~IsRecord(lastCall.before)) =>
    /\ lastCall.outcome = "done"
    /\ HoldsExactly(file, lastCall.line)

\* C5: when the file does not exist, an invocation issued at any time
\* after activate() returned creates it with exactly the variables and
\* classes of its line.
C5_AbsentFileCreated ==
  (Invoked /\ lastCall.before.kind = "absent") =>
    /\ lastCall.outcome = "done"
    /\ HoldsExactly(file, lastCall.line)

\* C9: an invocation that reads an existing valid record rewrites the
\* file; `variables` is as it was read when the line declares no variable,
\* `classes` is as it was read when the line has no class token, and the
\* whole record is as it was read when the line has neither.
C9_UnmatchedFieldsUntouched ==
  (Invoked /\ IsRecord(lastCall.before)) =>
    /\ lastCall.outcome = "done"
    /\ lastCall.wrote
    /\ file = Json(lastCall.written)
    /\ matchVars(lastCall.line) = <<>> =>
         file.value.variables = lastCall.before.value.variables
    /\ matchClasses(lastCall.line) = <<>> =>
         file.value.classes = lastCall.before.value.classes
    /\ (matchVars(lastCall.line) = <<>> /\ matchClasses(lastCall.line) = <<>>) =>
         file = lastCall.before

C9_Witness ==
  /\ lastCall.outcome = "done"
  /\ IsRecord(lastCall.before)
  /\ lastCall.before.value.variables # NoVariables
  /\ lastCall.before.value.classes # <<>>
  /\ matchVars(lastCall.line) = <<>>
  /\ matchClasses(lastCall.line) = <<>>

\* C10: no step of another invocation comes between the read and the write
\* of an invocation, so the dictionary holds the entries of every
\* invocation made.
C10_NoLostUpdate ==
  \A i \in 1..Len(calls) :
    /\ StoredNames(calls[i]) \subseteq DOMAIN VariablesOf(file)
    /\ \A c \in ClassTokens(calls[i]) : Includes(ClassesOf(file), c)

\* What does hold of every invocation that reads an absent file or a valid
\* record and runs to completion: it keeps every entry it read, adds the
\* names and the new class tokens of its line, and adds no duplicate.
CompletedInvocationMerges ==
  (lastCall.outcome = "done"
   /\ (lastCall.before.kind = "absent" \/ IsRecord(lastCall.before))) =>
    /\ IsRecord(file)
    /\ DOMAIN file.value.variables =
         DOMAIN VariablesOf(lastCall.before) \cup StoredNames(lastCall.line)
    /\ file.value.classes =
         ClassesOf(lastCall.before)
           \o Distinct(SelectSeq(matchClasses(lastCall.line),
                 LAMBDA c : ~Includes(ClassesOf(lastCall.before), c)))

----------------------------------------------------------------------------
(* The transform dispatcher.                                               *)

Finished == lastDone.outcome # "none"

\* C6: an invocation with no configured credential (unset or empty) issues
\* no request, makes no document mutation and shows exactly one error
\* message.
C6_NoCredentialOneError ==
  (Finished /\ lastDone.key \in {"unset", "empty"}) =>
    /\ lastDone.requests = 0
    /\ lastDone.edits = 0
    /\ lastDone.errors = 1

\* C6 as amended: an invocation with no configured credential issues no
\* request and makes no document mutation; it shows exactly one error
\* message when there is an active editor and none when there is not.
C6_NoCredentialNoRequest ==
  (Finished /\ lastDone.key \in {"unset", "empty"}) =>
    /\ lastDone.requests = 0
    /\ lastDone.edits = 0
    /\ lastDone.errors = IF lastDone.hadEditor THEN 1 ELSE 0

C6_Witness ==
  /\ Finished
  /\ lastDone.key = "empty"
  /\ lastDone.hadEditor
  /\ lastDone.errors = 1

\* The first candidate of the decoded body has non-empty content.
HasFirstContent(data) ==
  /\ ~data.isNull
  /\ data.hasChoices
  /\ data.choices # <<>>
  /\ Head(data.choices).hasMessage
  /\ Head(data.choices).hasContent
  /\ Len(Head(data.choices).content) > 0

ServiceFailure ==
  /\ lastDone.requests >= 1
  /\ \/ lastDone.rejected
     \/ ~lastDone.payload.decodes
     \/ ~HasFirstContent(lastDone.payload.data)

ServiceSuccess ==
  /\ lastDone.requests >= 1
  /\ ~lastDone.rejected
  /\ lastDone.payload.decodes
  /\ HasFirstContent(lastDone.payload.data)

\* C7: every service failure (a network error, an undecodable body, a body
\* without a non-empty first-candidate content) ends the invocation with
\* exactly one error message, no unhandled fault, exactly one request and
\* no document mutation.
C7_ServiceFailureReported ==
  ServiceFailure =>
    /\ lastDone.errors = 1
    /\ lastDone.outcome # "fault"
    /\ lastDone.requests = 1
    /\ lastDone.edits = 0

\* What does hold: a body that decodes but lacks the expected content is
\* reported once; a rejected request or an undecodable body is an unhandled
\* fault with no message; no failure mutates the document or is retried.
ServiceFailureOutcome ==
  ServiceFailure =>
    /\ lastDone.requests = 1
    /\ lastDone.edits = 0
    /\ IF lastDone.rejected \/ ~lastDone.payload.decodes
       THEN lastDone.outcome = "fault" /\ lastDone.errors = 0
       ELSE lastDone.outcome = "serviceerror" /\ lastDone.errors = 1

\* The document with the line of the given id replaced by text.
WithLine(d, id, text) ==
  [k \in DOMAIN d |-> IF d[k].id = id THEN [d[k] EXCEPT !.text = text] ELSE d[k]]

\* C8: on a successful response the invocation makes exactly one document
\* mutation, which replaces the text of the line that was sent by the
\* trimmed first-candidate content and changes nothing else, whatever
\* happened to the document while the request was in flight.
C8_ExactLineReplaced ==
  ServiceSuccess =>
    /\ lastDone.edits = 1
    /\ lastDone.docAfter =
         WithLine(lastDone.docBefore, lastDone.lineId,
                  Trim(Head(lastDone.payload.data.choices).content))

\* What does hold: the edit replaces the captured range (the captured line
\* number, from column 0 to the captured length) of the document as it is
\* when the response arrives.
CapturedRangeReplaced ==
  ServiceSuccess =>
    /\ lastDone.edits = 1
    /\ \E k \in DOMAIN lastDone.docBefore :
         /\ \A j \in DOMAIN lastDone.docBefore \ {k} :
              lastDone.docAfter[j] = lastDone.docBefore[j]
         /\ lastDone.docAfter[k].id = lastDone.docBefore[k].id
         /\ lastDone.docAfter[k].text =
              Trim(Head(lastDone.payload.data.choices).content)
                \o SubSeq(lastDone.docBefore[k].text,
                          Min(Len(lastDone.sent), Len(lastDone.docBefore[k].text)) + 1,
                          Len(lastDone.docBefore[k].text))

====
